---- MODULE Spec2Model ----
(***************************************************************************)
(* Model of the timeMCL TimeGrad forecast network                          *)
(* (tsExperiments/models/project_models/timeGrad/timeGradNetwork.py) and   *)
(* of the Lightning estimator                                              *)
(* (tsExperiments/Estimator/pytorchLightingEstimator.py).                  *)
(*                                                                         *)
(* Tensors are TLA+ sequences indexed from 1; a tensor of shape            *)
(* (N, T, C) is a sequence of N rows, each a sequence of T time steps,     *)
(* each a sequence of C channel values.  Python indices are 0-based, so    *)
(* Python x[b, t, c] is x[b+1][t+1][c+1] here.                             *)
(***************************************************************************)
EXTENDS Integers, Sequences, FiniteSets, TLC

VARIABLES
    \* ---- get_lagged_subsequences, called as a static function ----
    sequence,              \* the tensor argument, shape (N, T, C)
    sequence_length,       \* the int argument (what the caller says T is)
    indices,               \* the list of lag indices
    subsequences_length,   \* the int argument S
    lagged,                \* the outcome of the call, "pending" before it
    \* ---- PyTorchLightningEstimator ----
    trainer_kwargs,        \* self.trainer_kwargs, a dict (function on its keys)
    est_calls,             \* number of training calls made on the estimator
    train_out,             \* what the last training call did and returned
    \* ---- PersonnalizedTimeGrad ----
    net,                   \* the network instance: its configuration fields
    diffusion_scale,       \* self.diffusion.scale, the diffusion head's attribute
    net_calls,             \* number of calls started on the instance
    call,                  \* the call in progress, or the last one made
    enc_prev               \* the unroll_encoder call made before `call`

lagVars == <<sequence, sequence_length, indices, subsequences_length, lagged>>
estVars == <<trainer_kwargs, est_calls, train_out>>

netVars == <<net, diffusion_scale, net_calls, call, enc_prev>>

vars == <<lagVars, estVars, netVars>>

\* ------------------------------------------------------------------------
\* Bounds of the model
\* ------------------------------------------------------------------------
MaxLen == 3         \* longest time axis of a tensor given to the lag extractor
MaxSub == 2         \* largest subsequences_length
MaxLag == 2         \* largest lag index
MaxLags == 2        \* longest list of lag indices
LagBatch == 2       \* rows of the tensor given to the lag extractor
LagDim == 2         \* channels of the tensor given to the lag extractor
MaxTrainCalls == 2  \* training calls made on one estimator
MaxCallbacks == 2   \* longest list of user callbacks in the trainer options
MaxContext == 2     \* largest context_length of a network
MaxPred == 2        \* largest prediction_length of a network
MaxSamples == 2     \* largest num_parallel_samples of a network
MaxNetCalls == 2    \* loss and forward calls made on one network

\* ------------------------------------------------------------------------
\* Python and torch primitives
\* ------------------------------------------------------------------------
Max(a, b) == IF a >= b THEN a ELSE b
Min(a, b) == IF a <= b THEN a ELSE b

RECURSIVE MaxOf(_)
\* Python max(list) of a non-empty list
MaxOf(s) == IF Len(s) = 1 THEN s[1] ELSE Max(s[1], MaxOf(Tail(s)))

RECURSIVE MinOf(_)
\* the least element of a non-empty sequence
MinOf(s) == IF Len(s) = 1 THEN s[1] ELSE Min(s[1], MinOf(Tail(s)))

\* Python slice bound -> position in 0..n: a negative bound counts from the
\* end and is clamped at 0, a bound past the end is clamped at n
SliceBound(i, n) == IF i < 0 THEN Max(i + n, 0) ELSE Min(i, n)

\* x[begin:end] of a Python sequence x
PySlice(x, begin, end) ==
    SubSeq(x, SliceBound(begin, Len(x)) + 1, SliceBound(end, Len(x)))

\* x[begin:] (Python x[begin:None])
PySliceFrom(x, begin) == SubSeq(x, SliceBound(begin, Len(x)) + 1, Len(x))

\* sequence[:, begin:end, ...] of a tensor of shape (N, T, ...)
SliceTime(x, begin, end) == [b \in 1..Len(x) |-> PySlice(x[b], begin, end)]

\* sequence[:, begin:, ...]
SliceTimeFrom(x, begin) == [b \in 1..Len(x) |-> PySliceFrom(x[b], begin)]

\* x[:, -n:, ...]
LastSteps(x, n) == SliceTimeFrom(x, 0 - n)

\* ------------------------------------------------------------------------
\* PersonnalizedTimeGrad.get_lagged_subsequences
\* ------------------------------------------------------------------------
\* a lag extractor that forgets that -0 is 0: end_index = -lag_index always
LaggedSlice_NoNone(seq, lag_index, S) ==
    SliceTime(seq, 0 - lag_index - S, 0 - lag_index)

\* one pass of the for loop: sequence[:, begin_index:end_index, ...]
\* (the unsqueeze(1) is the position of the slice in lagged_values)
LaggedSlice(seq, lag_index, S) ==
    LET begin_index == 0 - lag_index - S
    IN  IF lag_index > 0
        THEN SliceTime(seq, begin_index, 0 - lag_index)
        ELSE SliceTimeFrom(seq, begin_index)        \* end_index = None

\* torch.cat(lagged_values, dim=1) needs the slices to agree on every other
\* axis; here the time axis is the only one that can differ
CatShapesAgree(vals) ==
    \A i, j \in 1..Len(vals) : \A b \in 1..Len(vals[i]) :
        Len(vals[i][b]) = Len(vals[j][b])

\* torch.cat(lagged_values, dim=1).permute(0, 2, 3, 1): shape (N, S, C, I)
CatPermute(vals) ==
    [b \in 1..Len(vals[1]) |->
        [t \in 1..Len(vals[1][b]) |->
            [c \in 1..Len(vals[1][b][t]) |->
                [i \in 1..Len(vals) |-> vals[i][b][t][c]]]]]

\* a lag extractor without its second assertion (negative lags slip through)
GetLaggedSubsequences_NoSignCheck(seq, seqlen, idx, S) ==
    IF Len(idx) = 0 THEN [kind |-> "ValueError"]
    ELSE IF ~(MaxOf(idx) + S <= seqlen) THEN [kind |-> "AssertionError"]
    ELSE LET lagged_values == [i \in 1..Len(idx) |-> LaggedSlice(seq, idx[i], S)]
         IN  IF ~CatShapesAgree(lagged_values) THEN [kind |-> "RuntimeError"]
             ELSE [kind |-> "tensor", value |-> CatPermute(lagged_values)]

\* the outcome of a call: a tensor or the exception that ends the call
GetLaggedSubsequences(seq, seqlen, idx, S) ==
    IF Len(idx) = 0 THEN [kind |-> "ValueError"]     \* max() of an empty list
    ELSE IF ~(MaxOf(idx) + S <= seqlen) THEN [kind |-> "AssertionError"]
    ELSE IF ~(\A i \in 1..Len(idx) : idx[i] >= 0) THEN [kind |-> "AssertionError"]
    ELSE LET lagged_values == [i \in 1..Len(idx) |-> LaggedSlice(seq, idx[i], S)]
         IN  IF ~CatShapesAgree(lagged_values) THEN [kind |-> "RuntimeError"]
             ELSE [kind |-> "tensor", value |-> CatPermute(lagged_values)]

\* ------------------------------------------------------------------------
\* The lag extractor as a pure function: inputs drawn in Init, one call
\* ------------------------------------------------------------------------
LagVals == 0..1

\* rows and channels carry their own index next to the time-dependent value,
\* so that every element of the tensor is told apart from its neighbours
TaggedSeries(x) ==
    [b \in 1..LagBatch |-> [t \in 1..Len(x) |-> [c \in 1..LagDim |-> <<b, c, x[t]>>]]]

SeqsUpTo(S, n) == UNION {[1..k -> S] : k \in 1..n}

\* the estimator is not used by the lag extractor
EstIdle ==
    /\ trainer_kwargs = << >>
    /\ est_calls = 0
    /\ train_out = [entry |-> "none", error |-> "none", events |-> << >>]

\* nor is a network instance
NetIdle ==
    /\ net = [status |-> "none"]
    /\ diffusion_scale = [set |-> FALSE]
    /\ net_calls = 0
    /\ call = [op |-> "none", pc |-> "none", error |-> "none"]
    /\ enc_prev = [op |-> "none"]

LagInit ==
    /\ EstIdle
    /\ NetIdle
    /\ \E T \in 1..MaxLen : \E x \in [1..T -> LagVals] : sequence = TaggedSeries(x)
    /\ sequence_length \in 0..(MaxLen + 1)
    /\ indices \in SeqsUpTo((-1)..MaxLag, MaxLags)
    /\ subsequences_length \in 0..MaxSub
    /\ lagged = [kind |-> "pending"]

CallGetLaggedSubsequences ==
    /\ lagged.kind = "pending"
    /\ lagged' = GetLaggedSubsequences(sequence, sequence_length, indices,
                                       subsequences_length)
    /\ UNCHANGED <<sequence, sequence_length, indices, subsequences_length>>
    /\ UNCHANGED <<estVars, netVars>>

LagNext == CallGetLaggedSubsequences

SpecLag == LagInit /\ [][LagNext]_vars

\* ------------------------------------------------------------------------
\* Properties of the lag extractor
\* ------------------------------------------------------------------------
LagsNonNegative == \A i \in 1..Len(indices) : indices[i] >= 0
LagWindowFits == MaxOf(indices) + subsequences_length <= sequence_length
\* the caller's sequence_length is the true length of the time axis
LengthIsTrue == \A b \in 1..Len(sequence) : Len(sequence[b]) = sequence_length

\* shape (batch, S, target_dim, number of lags) and
\* output[b, t, c, i] == series[b, L - lags[i] - S + t, c]
\* (t is 1-based here and 0-based in Python: both sides shift by one)
LaggedIsTheWindow ==
    /\ lagged.kind = "tensor"
    /\ Len(lagged.value) = Len(sequence)
    /\ \A b \in 1..Len(sequence) :
          /\ Len(lagged.value[b]) = subsequences_length
          /\ \A t \in 1..subsequences_length :
                /\ Len(lagged.value[b][t]) = LagDim
                /\ \A c \in 1..LagDim :
                      /\ Len(lagged.value[b][t][c]) = Len(indices)
                      /\ \A i \in 1..Len(indices) :
                            lagged.value[b][t][c][i] =
                                sequence[b][sequence_length - indices[i]
                                            - subsequences_length + t][c]

C2_FailsFast ==
    /\ lagged.kind = "tensor" => (LagWindowFits /\ LagsNonNegative)
    /\ (lagged.kind # "pending" /\ ~(LagWindowFits /\ LagsNonNegative))
          => lagged.kind = "AssertionError"

\* a call whose window fits but that has a negative lag ended in the assertion
C2_Witness ==
    /\ lagged.kind = "AssertionError"
    /\ LagWindowFits /\ ~LagsNonNegative

\* ------------------------------------------------------------------------
\* PyTorchLightningEstimator
\* ------------------------------------------------------------------------
\* Python dicts are functions on their set of keys
EmptyDict == << >>
\* d.pop(k, default): the value ...
Pop(d, k, default) == IF k \in DOMAIN d THEN d[k] ELSE default
\* ... and the dict that is left
Without(d, k) == [x \in (DOMAIN d) \ {k} |-> d[x]]
\* {**a, **b}: the keys of b override those of a
Merge(a, b) == [x \in (DOMAIN a) \cup (DOMAIN b) |-> IF x \in DOMAIN b THEN b[x] ELSE a[x]]

NoPredictor == [kind |-> "None"]
NoData == "None"

\* pl.callbacks.ModelCheckpoint(monitor=monitor, mode="min", verbose=True),
\* the n-th call's own callback object
ModelCheckpoint(monitor, n) ==
    [cb |-> "ModelCheckpoint", owner |-> "train_model", call |-> n, monitor |-> monitor]

\* the network self.create_lightning_module() builds in the n-th call
NewModule(n) ==
    [origin |-> "create_lightning_module", call |-> n, path |-> "", weights |-> "initial"]
\* training_network.__class__.load_from_checkpoint(path): another instance
LoadFromCheckpoint(path, n) ==
    [origin |-> "load_from_checkpoint", call |-> n, path |-> path, weights |-> "best"]

\* a train_model that installs its checkpoint callback whatever the data
AllCallbacks_Always(validation_data, checkpoint, custom_callbacks) ==
    <<checkpoint>> \o custom_callbacks

\* a train_model that installs its checkpoint callback after the user's,
\* whatever the data
AllCallbacks_CheckpointLast(validation_data, checkpoint, custom_callbacks) ==
    custom_callbacks \o <<checkpoint>>

\* lines 185-190: the callbacks given to the trainer
AllCallbacks(validation_data, checkpoint, custom_callbacks) ==
    IF validation_data = NoData
    THEN <<checkpoint>> \o custom_callbacks
    ELSE custom_callbacks

\* a train_model that fits even when validation_only is set
RunsValidationOnly_Never(validation_only) == FALSE

\* line 204: if validation_only
RunsValidationOnly(validation_only) == validation_only

\* a train_model that always keeps the in-memory network
ReloadsBest_Never(best_model_path) == FALSE

\* line 223: if checkpoint.best_model_path != ""
ReloadsBest(best_model_path) == best_model_path # ""

\* a train_model that never copies the prior predictor's state
LoadsPriorWeights_Never(from_predictor) == FALSE

\* line 176: if from_predictor is not None
LoadsPriorWeights(from_predictor) == from_predictor # NoPredictor

\* checkpoint.best_model_path after trainer.fit: the trainer writes it only
\* for a callback it was given, and then only if a checkpoint was saved
\* (saved_path = "" when none was)
BestModelPath(checkpoint, trainer_callbacks, saved_path) ==
    IF \E i \in 1..Len(trainer_callbacks) : trainer_callbacks[i] = checkpoint
    THEN saved_path
    ELSE ""

\* One call of train_model on an estimator whose trainer options are kw: what
\* it did (events, in program order), what it returned and the options it
\* leaves behind.  n numbers the call; saved_path is what the trainer's
\* checkpointing produced during fit.
TrainModel(kw, n, entry, validation_data, from_predictor, cache_data, saved_path) ==
    LET cached == IF cache_data THEN <<"Cached">> ELSE << >>
        built == NewModule(n)
        ev_train == <<"create_transformation", "apply(training_data)">> \o cached
                    \o <<"create_lightning_module", "create_training_data_loader">>
        ev_val == IF validation_data # NoData
                  THEN <<"apply(validation_data)">> \o cached
                       \o <<"create_validation_data_loader">>
                  ELSE << >>
        validation_data_loader == IF validation_data # NoData
                                  THEN "validation_data_loader" ELSE "None"
        ev_load == IF LoadsPriorWeights(from_predictor) THEN <<"load_state_dict">> ELSE << >>
        loaded == IF LoadsPriorWeights(from_predictor)
                  THEN [built EXCEPT !.weights = from_predictor.network.weights]
                  ELSE built
        monitor == IF validation_data = NoData THEN "train_loss" ELSE "val_loss"
        checkpoint == ModelCheckpoint(monitor, n)
        custom_callbacks == Pop(kw, "callbacks", << >>)
        kw1 == Without(kw, "callbacks")
        all_callbacks == AllCallbacks(validation_data, checkpoint, custom_callbacks)
        validation_only == Pop(kw1, "validation_only", FALSE)
        kw2 == Without(kw1, "validation_only")
        logger == Pop(kw2, "logger", "None")
        kw3 == Without(kw2, "logger")
        trainer_args == Merge([accelerator |-> "auto", callbacks |-> all_callbacks,
                               logger |-> logger], kw3)
        trainer == [call |-> n, args |-> trainer_args]
        only_validate == RunsValidationOnly(validation_only)
        fitted == [loaded EXCEPT !.weights = "fitted"]
        training_network == IF only_validate THEN loaded ELSE fitted
        best_model_path == IF only_validate THEN ""
                           ELSE BestModelPath(checkpoint, trainer_args["callbacks"], saved_path)
        reload == ~only_validate /\ ReloadsBest(best_model_path)
        best_model == IF reload THEN LoadFromCheckpoint(best_model_path, n)
                      ELSE training_network
        ev_run == IF only_validate THEN <<"trainer.validate">>
                  ELSE <<"trainer.fit">> \o
                       (IF reload THEN <<"load_from_checkpoint">> ELSE << >>)
    IN  [kwargs |-> kw3,
         out |-> [entry |-> entry, call |-> n, error |-> "none",
                  events |-> ev_train \o ev_val \o ev_load
                             \o <<"ModelCheckpoint", "pl.Trainer">> \o ev_run
                             \o <<"create_predictor">>,
                  validation_data |-> validation_data,
                  validation_data_loader |-> validation_data_loader,
                  from_predictor |-> from_predictor,
                  options |-> kw,
                  monitor |-> monitor,
                  checkpoint |-> checkpoint,
                  custom_callbacks |-> custom_callbacks,
                  validation_only |-> validation_only,
                  trainer |-> trainer,
                  built |-> built,
                  started_from |-> loaded,
                  saved_path |-> saved_path,
                  training_network |-> training_network,
                  best_model_path |-> best_model_path,
                  trained_net |-> best_model,
                  predictor |-> [kind |-> "PyTorchPredictor", network |-> best_model]]]

\* ---- the inputs of the training calls ----
UserCallbacks ==
    {[cb |-> "EarlyStopping", owner |-> "user", call |-> 0, monitor |-> "val_loss"],
     [cb |-> "ModelCheckpoint", owner |-> "user", call |-> 0, monitor |-> "val_loss"]}
CallbackLists == {<< >>} \cup SeqsUpTo(UserCallbacks, MaxCallbacks)

\* a dict with the key k absent, or present with a value of V
Option(k, V) == {EmptyDict} \cup {k :> v : v \in V}

TrainerOptions ==
    {a @@ b @@ c @@ d :
        a \in Option("callbacks", CallbackLists),
        b \in Option("validation_only", BOOLEAN),
        c \in Option("logger", {"tensorboard"}),
        d \in Option("accelerator", {"cpu"})}

PriorPredictors ==
    {[kind |-> "PyTorchPredictor", network |-> [origin |-> "from_predictor", call |-> 0, path |-> "",
                                                   weights |-> "prior"]]}
\* what the trainer's checkpointing may leave behind
SavedPaths == {"", "epoch=0.ckpt"}

EstInit ==
    /\ trainer_kwargs \in TrainerOptions
    /\ est_calls = 0
    /\ train_out = [entry |-> "none", error |-> "none", events |-> << >>]

\* estimator.train_model(training_data, validation_data, from_predictor, ...)
CallTrainModel ==
    /\ est_calls < MaxTrainCalls
    /\ \E validation_data \in {NoData, "validation_data"},
          from_predictor \in {NoPredictor} \cup PriorPredictors,
          cache_data \in BOOLEAN, saved_path \in SavedPaths :
          LET r == TrainModel(trainer_kwargs, est_calls + 1, "train_model",
                              validation_data, from_predictor, cache_data, saved_path)
          IN  /\ trainer_kwargs' = r.kwargs
              /\ train_out' = r.out
    /\ est_calls' = est_calls + 1
    /\ UNCHANGED <<lagVars, netVars>>

\* estimator.train(training_data, validation_data, ...)
CallTrain ==
    /\ est_calls < MaxTrainCalls
    /\ \E validation_data \in {NoData, "validation_data"},
          cache_data \in BOOLEAN, saved_path \in SavedPaths :
          LET r == TrainModel(trainer_kwargs, est_calls + 1, "train",
                              validation_data, NoPredictor, cache_data, saved_path)
          IN  /\ trainer_kwargs' = r.kwargs
              /\ train_out' = r.out
    /\ est_calls' = est_calls + 1
    /\ UNCHANGED <<lagVars, netVars>>

\* a train_from that hands whatever it is given to train_model
IsPyTorchPredictor_Any(predictor) == TRUE

\* line 268: isinstance(predictor, PyTorchPredictor)
IsPyTorchPredictor(predictor) == predictor.kind = "PyTorchPredictor"

\* a predictor of another kind (its network has state all the same)
OtherPredictors ==
    {[kind |-> "RepresentablePredictor", network |-> [origin |-> "from_predictor", call |-> 0, path |-> "",
                                                         weights |-> "other"]]}

\* estimator.train_from(predictor, training_data, validation_data, ...)
CallTrainFrom ==
    /\ est_calls < MaxTrainCalls
    /\ \E predictor \in PriorPredictors \cup OtherPredictors,
          validation_data \in {NoData, "validation_data"},
          cache_data \in BOOLEAN, saved_path \in SavedPaths :
          IF ~IsPyTorchPredictor(predictor)
          THEN /\ train_out' = [entry |-> "train_from", call |-> est_calls + 1,
                                error |-> "AssertionError", events |-> << >>,
                                from_predictor |-> predictor, options |-> trainer_kwargs]
               /\ UNCHANGED trainer_kwargs
          ELSE LET r == TrainModel(trainer_kwargs, est_calls + 1, "train_from",
                                   validation_data, predictor, cache_data, saved_path)
               IN  /\ trainer_kwargs' = r.kwargs
                   /\ train_out' = r.out
    /\ est_calls' = est_calls + 1
    /\ UNCHANGED <<lagVars, netVars>>

EstNext ==
    \/ CallTrainModel
    \/ CallTrain
    \/ CallTrainFrom

\* the lag extractor is not used by the estimator
LagIdle ==
    /\ sequence = << >>
    /\ sequence_length = 0
    /\ indices = << >>
    /\ subsequences_length = 0
    /\ lagged = [kind |-> "pending"]

EstSpecInit == LagIdle /\ NetIdle /\ EstInit

SpecEst == EstSpecInit /\ [][EstNext]_vars

\* ------------------------------------------------------------------------
\* Properties of the estimator
\* ------------------------------------------------------------------------
\* a training call that ran train_model to its return
Trained == train_out.entry # "none" /\ train_out.error = "none"

\* the user callbacks found in the trainer options when the call started
UserCallbacksOf(options) ==
    IF "callbacks" \in DOMAIN options THEN options["callbacks"] ELSE << >>

Count(events, e) == Cardinality({i \in 1..Len(events) : events[i] = e})

IsDefaultCheckpoint(cb) == cb.cb = "ModelCheckpoint" /\ cb.owner = "train_model"

\* C6: without validation data the monitored metric is train_loss and the
\* trainer's callbacks are the default checkpoint callback followed by the
\* user callbacks; with validation data the metric is val_loss and the
\* trainer's callbacks are exactly the user callbacks.
C6_MonitorAndCallbacks ==
    Trained =>
        LET cbs == train_out.trainer.args["callbacks"]
            user == UserCallbacksOf(train_out.options)
        IN  IF train_out.validation_data = NoData
            THEN /\ train_out.monitor = "train_loss"
                 /\ Len(cbs) = Len(user) + 1
                 /\ IsDefaultCheckpoint(cbs[1])
                 /\ cbs[1].monitor = "train_loss"
                 /\ cbs[1].call = train_out.call
                 /\ \A i \in 1..Len(user) : cbs[i + 1] = user[i]
            ELSE /\ train_out.monitor = "val_loss"
                 /\ cbs = user
                 /\ \A i \in 1..Len(cbs) : ~IsDefaultCheckpoint(cbs[i])

\* a call with validation data and two user callbacks in the options
C6_Witness ==
    /\ Trained
    /\ train_out.validation_data # NoData
    /\ Len(UserCallbacksOf(train_out.options)) = 2

ValidationOnlySet(options) ==
    "validation_only" \in DOMAIN options /\ options["validation_only"] = TRUE

\* C7: with validation_only = True in the trainer options, train_model calls
\* trainer.validate exactly once, never trainer.fit, never reloads from a
\* checkpoint, and returns the network it built (loaded from from_predictor
\* if given), which is also the network handed to create_predictor.
C7_ValidationOnly ==
    (Trained /\ ValidationOnlySet(train_out.options)) =>
        /\ Count(train_out.events, "trainer.validate") = 1
        /\ Count(train_out.events, "trainer.fit") = 0
        /\ Count(train_out.events, "load_from_checkpoint") = 0
        /\ train_out.trained_net.origin = "create_lightning_module"
        /\ train_out.trained_net.call = train_out.call
        /\ train_out.trained_net.weights =
              (IF train_out.from_predictor = NoPredictor THEN "initial"
               ELSE train_out.from_predictor.network.weights)
        /\ train_out.predictor.network = train_out.trained_net

\* a validation-only call that started from a prior predictor
C7_Witness ==
    /\ Trained
    /\ ValidationOnlySet(train_out.options)
    /\ train_out.from_predictor # NoPredictor
    /\ Count(train_out.events, "trainer.validate") = 1

\* C8: after trainer.fit returns, trained_net is a network reloaded from the
\* recorded best checkpoint path if that path is non-empty and the fitted
\* in-memory network otherwise; the call completes and the predictor is
\* built from the network returned as trained_net.
C8_BestModel ==
    (train_out.entry # "none" /\ Count(train_out.events, "trainer.fit") >= 1) =>
        /\ train_out.error = "none"
        /\ Count(train_out.events, "trainer.fit") = 1
        /\ IF train_out.best_model_path # ""
           THEN /\ train_out.trained_net.origin = "load_from_checkpoint"
                /\ train_out.trained_net.path = train_out.best_model_path
                /\ Count(train_out.events, "load_from_checkpoint") = 1
           ELSE /\ train_out.trained_net.origin = "create_lightning_module"
                /\ train_out.trained_net.call = train_out.call
                /\ train_out.trained_net.weights = "fitted"
                /\ Count(train_out.events, "load_from_checkpoint") = 0
        /\ train_out.events[Len(train_out.events)] = "create_predictor"
        /\ train_out.predictor.network = train_out.trained_net

\* a fit that recorded a checkpoint, and whose best network was reloaded
C8_Witness ==
    /\ Trained
    /\ Count(train_out.events, "trainer.fit") = 1
    /\ train_out.best_model_path # ""
    /\ train_out.trained_net.origin = "load_from_checkpoint"

\* C9: train_from with a predictor that is not a PyTorchPredictor fails with
\* an assertion before anything else happens: no transformation, network,
\* loader, trainer, fit or validate, and the trainer options are untouched.
C9_TrainFromAsserts ==
    (train_out.entry = "train_from"
        /\ train_out.from_predictor.kind # "PyTorchPredictor") =>
        /\ train_out.error = "AssertionError"
        /\ train_out.events = << >>
        /\ trainer_kwargs = train_out.options

\* train_from was given a predictor of another kind
C9_Witness ==
    /\ train_out.entry = "train_from"
    /\ train_out.from_predictor.kind = "RepresentablePredictor"
    /\ train_out.error = "AssertionError"

\* the phase of train_model an event belongs to: 1 transform training data,
\* 2 transform validation data, 3 build the network, 4 build the loaders,
\* 5 load prior weights, 6 build the trainer, 7 validate or fit, 8 select the
\* best network (a reload, when there is one), 9 build the predictor; 0 for
\* the events that are none of these
PhaseOf(e) ==
    CASE e = "apply(training_data)" -> 1
      [] e = "apply(validation_data)" -> 2
      [] e = "create_lightning_module" -> 3
      [] e \in {"create_training_data_loader", "create_validation_data_loader"} -> 4
      [] e = "load_state_dict" -> 5
      [] e = "pl.Trainer" -> 6
      [] e \in {"trainer.validate", "trainer.fit"} -> 7
      [] e = "load_from_checkpoint" -> 8
      [] e = "create_predictor" -> 9
      [] OTHER -> 0

\* the positions of the event e in the log
Positions(events, e) == {i \in 1..Len(events) : events[i] = e}

\* C11: within one train_model call the phases occur in the order transform
\* training data, transform validation data (if given), build the network,
\* build the loaders, load prior weights (if given), build the trainer,
\* validate-only or fit, select the best network, build the predictor, each
\* at most once; the validation data is transformed before the network is
\* built and no loader is built before the network.
C11_PhaseOrder ==
    Trained =>
        LET ev == train_out.events
        IN  /\ \A i, j \in 1..Len(ev) :
                  (i < j /\ PhaseOf(ev[i]) # 0 /\ PhaseOf(ev[j]) # 0)
                      => PhaseOf(ev[i]) <= PhaseOf(ev[j])
            /\ \A i, j \in 1..Len(ev) :
                  (PhaseOf(ev[i]) # 0 /\ ev[i] = ev[j]) => i = j
            /\ Count(ev, "trainer.validate") + Count(ev, "trainer.fit") = 1
            /\ \A e \in {"apply(training_data)", "create_lightning_module",
                          "create_training_data_loader", "pl.Trainer",
                          "create_predictor"} : Count(ev, e) = 1
            /\ Count(ev, "apply(validation_data)") =
                  (IF train_out.validation_data = NoData THEN 0 ELSE 1)
            /\ \A v \in Positions(ev, "apply(validation_data)"),
                  m \in Positions(ev, "create_lightning_module") : v < m
            /\ \A l \in 1..Len(ev), m \in Positions(ev, "create_lightning_module") :
                  PhaseOf(ev[l]) = 4 => m < l

\* C12: when from_predictor is supplied the new network's state is
\* overwritten with from_predictor.network's state exactly once, after the
\* network is built and before the trainer's fit or validate; when
\* from_predictor is None no state load happens.
C12_PriorWeights ==
    Trained =>
        LET ev == train_out.events
            run == Positions(ev, "trainer.fit") \cup Positions(ev, "trainer.validate")
        IN  IF train_out.from_predictor # NoPredictor
            THEN /\ Count(ev, "load_state_dict") = 1
                 /\ \A l \in Positions(ev, "load_state_dict") :
                       /\ \E m \in Positions(ev, "create_lightning_module") : m < l
                       /\ \A r \in run : l < r
                 /\ train_out.started_from.origin = "create_lightning_module"
                 /\ train_out.started_from.call = train_out.call
                 /\ train_out.started_from.weights =
                       train_out.from_predictor.network.weights
            ELSE /\ Count(ev, "load_state_dict") = 0
                 /\ train_out.started_from = train_out.built

\* train_model was given a prior predictor, and fitted from its weights
C12_Witness ==
    /\ Trained
    /\ train_out.entry = "train_model"
    /\ train_out.from_predictor # NoPredictor
    /\ train_out.started_from.weights = "prior"
    /\ Count(train_out.events, "load_state_dict") = 1
    /\ Count(train_out.events, "trainer.fit") = 1

\* C17: train_model leaves the estimator's trainer options unchanged, so
\* that a second train_model call on the same estimator runs with the same
\* user callbacks, logger and validation_only mode as the first.
C17_OptionsUnchanged ==
    Trained => trainer_kwargs = train_out.options

\* C18: when validation data is given, the checkpoint callback whose
\* best_model_path is consulted after fit was never given to the trainer, so
\* the path is empty and the returned trained_net is the fitted in-memory
\* network of this call, never one reloaded from a checkpoint, whatever
\* checkpoints were written during the fit.
C18_NoReloadWithValidation ==
    (Trained /\ train_out.validation_data # NoData) =>
        LET cbs == train_out.trainer.args["callbacks"]
        IN  /\ \A i \in 1..Len(cbs) : cbs[i] # train_out.checkpoint
            /\ train_out.best_model_path = ""
            /\ Count(train_out.events, "load_from_checkpoint") = 0
            /\ train_out.trained_net = train_out.training_network
            /\ train_out.trained_net.origin = "create_lightning_module"
            /\ train_out.trained_net.call = train_out.call
            /\ Count(train_out.events, "trainer.fit") = 1
                  => train_out.trained_net.weights = "fitted"

\* a fit with validation data during which a user checkpoint callback was
\* installed and a checkpoint was written
C18_Witness ==
    /\ Trained
    /\ train_out.validation_data # NoData
    /\ Count(train_out.events, "trainer.fit") = 1
    /\ train_out.saved_path # ""
    /\ \E i \in 1..Len(train_out.trainer.args["callbacks"]) :
          train_out.trainer.args["callbacks"][i].cb = "ModelCheckpoint"
    /\ train_out.trained_net.weights = "fitted"

\* ------------------------------------------------------------------------
\* PersonnalizedTimeGrad.__init__
\* ------------------------------------------------------------------------
\* raise ValueError(f"Invalid scaler type: {self.scaler_type}")
InvalidScalerType == "ValueError: Invalid scaler type"

\* lines 109-128: the scaler object, or the error of the last else
SelectScaler(scaling, scaler_type) ==
    IF scaling
    THEN CASE scaler_type = "mean" -> "MeanScaler"
           [] scaler_type = "nops" -> "NOPScaler"
           [] scaler_type = "centered_mean" -> "CenteredMeanScaler"
           [] scaler_type = "mean_std" -> "MeanStdScaler"
           [] OTHER -> InvalidScalerType
    ELSE "NOPScaler"

\* list.sort()
Sorted(s) == SortSeq(s, LAMBDA a, b : a < b)

\* the instance __init__ leaves behind; status is "ok" or the exception raised
Construct(args) ==
    LET lags_seq == args.lags_seq
        history_length == args.context_length + MaxOf(lags_seq)
        shifted_lags == [i \in 1..Len(lags_seq) |-> lags_seq[i] - 1]
        scaler == SelectScaler(args.scaling, args.scaler_type)
    IN  [status |-> IF scaler = InvalidScalerType THEN InvalidScalerType ELSE "ok",
         scaler_type |-> args.scaler_type,
         scaling |-> args.scaling,
         scaler |-> scaler,
         lags_seq |-> Sorted(lags_seq),
         shifted_lags |-> shifted_lags,
         history_length |-> history_length,
         context_length |-> args.context_length,
         prediction_length |-> args.prediction_length,
         target_dim |-> args.target_dim,
         num_parallel_samples |-> args.num_parallel_samples,
         cell_type |-> args.cell_type]

\* ------------------------------------------------------------------------
\* The scalers (data_and_transformation).  Values are exact fractions
\* <<numerator, denominator>> in lowest terms.
\* ------------------------------------------------------------------------
Abs(x) == IF x < 0 THEN 0 - x ELSE x

RECURSIVE GCD(_, _)
GCD(a, b) == IF b = 0 THEN a ELSE GCD(b, a % b)

Frac(n, d) == LET g == GCD(Abs(n), d) IN <<n \div g, d \div g>>

RECURSIVE SumSeq(_)
SumSeq(v) == IF Len(v) = 0 THEN 0 ELSE v[1] + SumSeq(Tail(v))

\* the floor that keeps a scale away from zero
MinimumScale == <<1, 1000000>>
Floored(f) == IF f[1] <= 0 THEN MinimumScale ELSE f

\* per row b and channel c, over the time axis of the window
NumObserved(observed, b, c) ==
    SumSeq([t \in 1..Len(observed[b]) |-> observed[b][t][c]])
WeightedSum(data, observed, b, c) ==
    SumSeq([t \in 1..Len(data[b]) |-> data[b][t][c] * observed[b][t][c]])

\* a statistic per (row, channel) as a tensor of shape (N, 1, C)  (keepdim)
KeepDim(data, F(_, _)) ==
    [b \in 1..Len(data) |-> << [c \in 1..Len(data[b][1]) |-> F(b, c)] >>]

\* MeanScaler: the average of |value| over the observed steps, floored
MeanScaler(data, observed) ==
    LET abs == [b \in 1..Len(data) |-> [t \in 1..Len(data[b]) |->
                   [c \in 1..Len(data[b][t]) |-> Abs(data[b][t][c])]]]
        scale(b, c) == Floored(Frac(WeightedSum(abs, observed, b, c),
                                    Max(NumObserved(observed, b, c), 1)))
    IN  [scale |-> KeepDim(data, scale)]

\* the mean over the observed steps
ObservedMean(data, observed) ==
    LET mean(b, c) == Frac(WeightedSum(data, observed, b, c),
                           Max(NumObserved(observed, b, c), 1))
    IN  KeepDim(data, mean)

\* MeanStdScaler: mean and standard deviation over the observed steps; the
\* deviation is carried as its square (the variance), floored
MeanStdScaler(data, observed) ==
    LET sq == [b \in 1..Len(data) |-> [t \in 1..Len(data[b]) |->
                  [c \in 1..Len(data[b][t]) |-> data[b][t][c] * data[b][t][c]]]]
        var(b, c) ==
            LET n == Max(NumObserved(observed, b, c), 1)
                s == WeightedSum(data, observed, b, c)
            IN  Floored(Frac(n * WeightedSum(sq, observed, b, c) - s * s, n * n))
    IN  [mean |-> ObservedMean(data, observed), std |-> KeepDim(data, var)]

\* CenteredMeanScaler: centres on the mean, then scales by the average
\* absolute deviation over the observed steps, floored
CenteredMeanScaler(data, observed) ==
    LET dev(b, c) ==
            LET n == Max(NumObserved(observed, b, c), 1)
                s == WeightedSum(data, observed, b, c)
                centred == [bb \in 1..Len(data) |-> [t \in 1..Len(data[bb]) |->
                               [cc \in 1..Len(data[bb][t]) |->
                                   Abs(n * data[bb][t][cc] - s)]]]
            IN  Floored(Frac(WeightedSum(centred, observed, b, c), n * n))
    IN  [mean |-> ObservedMean(data, observed), std |-> KeepDim(data, dev)]

\* NOPScaler: scale = 1, or mean = 0 and std = 1
NOPScaler(data, observed) ==
    LET one(b, c) == <<1, 1>>
        zero(b, c) == <<0, 1>>
    IN  [scale |-> KeepDim(data, one), mean |-> KeepDim(data, zero),
         std |-> KeepDim(data, one)]

\* self.scaler(data, observed)
Scaler(scaler, data, observed) ==
    CASE scaler = "MeanScaler" -> MeanScaler(data, observed)
      [] scaler = "MeanStdScaler" -> MeanStdScaler(data, observed)
      [] scaler = "CenteredMeanScaler" -> CenteredMeanScaler(data, observed)
      [] scaler = "NOPScaler" -> NOPScaler(data, observed)

\* ------------------------------------------------------------------------
\* PersonnalizedTimeGrad.unroll and unroll_encoder
\* ------------------------------------------------------------------------
\* torch.min(past_observed_values, 1 - past_is_pad.unsqueeze(-1))
MaskPadded(past_observed_values, past_is_pad) ==
    [b \in 1..Len(past_observed_values) |->
        [t \in 1..Len(past_observed_values[b]) |->
            [c \in 1..Len(past_observed_values[b][t]) |->
                Min(past_observed_values[b][t][c], 1 - past_is_pad[b][t])]]]

\* torch.cat((x, y), dim=1)
CatTime(x, y) == [b \in 1..Len(x) |-> x[b] \o y[b]]

\* lines 253-265: the branch on scaler_type at the head of unroll; the rest
\* of unroll (embedding, rnn) has no failure of its own
Unroll(self) ==
    IF self.scaler_type = "mean" THEN "ok"
    ELSE IF self.scaler_type = "mean_std" \/ self.scaler_type = "centered_mean" THEN "ok"
    ELSE InvalidScalerType

\* exact arithmetic on fractions; a divisor is a scale or a deviation, > 0
FracSub(a, b) == Frac(a[1] * b[2] - b[1] * a[2], a[2] * b[2])
FracDiv(a, b) == Frac(a[1] * b[2], a[2] * b[1])
\* x * |x|: stands for x where a deviation is carried as its square
SignedSquare(a) == Frac((IF a[1] < 0 THEN 0 - 1 ELSE 1) * a[1] * a[1], a[2] * a[2])

\* lines 253-263: lags / scale.unsqueeze(-1), or
\* (lags - mean.unsqueeze(-1)) / std.unsqueeze(-1); shape (N, S, C, I)
LagsScaled(self, lags, scale_params) ==
    [b \in 1..Len(lags) |-> [t \in 1..Len(lags[b]) |->
        [c \in 1..Len(lags[b][t]) |-> [i \in 1..Len(lags[b][t][c]) |->
            IF self.scaler_type = "mean"
            THEN FracDiv(<<lags[b][t][c][i], 1>>, scale_params.scale[b][1][c])
            ELSE LET d == FracSub(<<lags[b][t][c][i], 1>>, scale_params.mean[b][1][c])
                     std == scale_params.std[b][1][c]
                 IN  IF self.scaler = "MeanStdScaler"
                     THEN FracDiv(SignedSquare(d), std)
                     ELSE FracDiv(d, std)]]]]

\* an encoder that scales on the whole past, not on the context window
ScaleWindow_WholePast(self, x) == x

\* lines 400-401 and 406-407: x[:, -self.context_length :, ...]
ScaleWindow(self, x) == LastSteps(x, self.context_length)

\* lines 398-411: the scale parameters, or the error of the last else
ScaleParams(self, past_target_cdf, past_observed_values) ==
    LET out == Scaler(self.scaler, ScaleWindow(self, past_target_cdf),
                      ScaleWindow(self, past_observed_values))
    IN  IF self.scaler_type = "mean"
        THEN [kind |-> "ok", scale_params |-> [scale |-> out.scale]]
        ELSE IF self.scaler_type = "mean_std" \/ self.scaler_type = "centered_mean"
        THEN [kind |-> "ok", scale_params |-> [mean |-> out.mean, std |-> out.std]]
        ELSE [kind |-> InvalidScalerType]

\* unroll_encoder: in.future_time_feat and in.future_target_cdf are tensors,
\* or "None" is flagged by in.future_time_feat_given / in.future_target_given
UnrollEncoder(self, in) ==
    LET past_observed_values == MaskPadded(in.past_observed_values, in.past_is_pad)
        encode_only == ~in.future_time_feat_given \/ ~in.future_target_given
        seq == IF encode_only THEN in.past_target_cdf
               ELSE CatTime(in.past_target_cdf, in.future_target_cdf)
        seqlen == IF encode_only THEN self.history_length
                  ELSE self.history_length + self.prediction_length
        subseqlen == IF encode_only THEN self.context_length
                     ELSE self.context_length + self.prediction_length
        lags == GetLaggedSubsequences(seq, seqlen, self.lags_seq, subseqlen)
        scaled == ScaleParams(self, in.past_target_cdf, past_observed_values)
    IN  IF lags.kind # "tensor" THEN [kind |-> lags.kind]
        ELSE IF scaled.kind # "ok" THEN [kind |-> scaled.kind]
        ELSE IF Unroll(self) # "ok" THEN [kind |-> Unroll(self)]
        ELSE [kind |-> "ok", scale_params |-> scaled.scale_params,
              lags |-> lags.value,
              lags_scaled |-> LagsScaled(self, lags.value, scaled.scale_params),
              unroll_length |-> subseqlen]

\* ------------------------------------------------------------------------
\* Pairs of unroll_encoder calls on one network
\* ------------------------------------------------------------------------
ScalerTypes == {"mean", "nops", "centered_mean", "mean_std", "robust"}
TargetVals == {-1, 2}

\* a tensor of shape (1, T, 1) from its values along the time axis
Series(x) == << [t \in 1..Len(x) |-> <<x[t]>>] >>

\* the masks of a window of T steps, <<observed, is_pad>>: everything
\* observed, or one step unobserved, or the first step padding (windows
\* are padded on the left)
Masks(T) ==
    {<<[t \in 1..T |-> IF t = j THEN 0 ELSE 1], [t \in 1..T |-> 0]>> : j \in 0..T}
    \cup {<<[t \in 1..T |-> 1], [t \in 1..T |-> IF t = 1 THEN 1 ELSE 0]>>}

NoFuture == [future_time_feat_given |-> FALSE, future_target_given |-> FALSE,
             future_target_cdf |-> << >>]
Futures(P) ==
    {NoFuture} \cup
    {[future_time_feat_given |-> TRUE, future_target_given |-> TRUE,
      future_target_cdf |-> Series([t \in 1..P |-> v])] : v \in TargetVals}

\* the batches of one series given to a network
EncoderInputs(self) ==
    {[past_target_cdf |-> Series(x), past_observed_values |-> Series(m[1]),
      past_is_pad |-> <<m[2]>>] @@ f :
        x \in [1..self.history_length -> TargetVals],
        m \in Masks(self.history_length),
        f \in Futures(self.prediction_length)}

EncArgs ==
    [scaling : BOOLEAN, scaler_type : ScalerTypes,
     context_length : 1..MaxContext, prediction_length : {MaxPred},
     lags_seq : {<<1>>},
     target_dim : {1}, num_parallel_samples : {1}, cell_type : {"LSTM"}]

\* what the claim's "last context_length steps" are, step by step:
\* Python x[b, T - n + t, c] for t = 0 .. n-1
ContextSteps(x, n) ==
    [b \in 1..Len(x) |-> [t \in 1..n |-> x[b][Len(x[b]) - n + t]]]
\* observed AND NOT padded, element by element
EffectiveObserved(observed, pad) ==
    [b \in 1..Len(observed) |-> [t \in 1..Len(observed[b]) |->
        [c \in 1..Len(observed[b][t]) |->
            IF observed[b][t][c] = 1 /\ pad[b][t] = 0 THEN 1 ELSE 0]]]

EncInit ==
    /\ net \in {n \in {Construct(a) : a \in EncArgs} : n.status = "ok"}
    /\ diffusion_scale = [set |-> FALSE]
    /\ net_calls = 0
    /\ call = [op |-> "none"]
    /\ enc_prev = [op |-> "none"]

\* net.unroll_encoder(...), called directly; the call record keeps what the
\* call returned and, of its inputs, what the context window held, whether
\* future data was given and the oldest past target value
CallUnrollEncoder ==
    /\ net.status = "ok"
    /\ enc_prev.op = "none"
    /\ \E in \in EncoderInputs(net) :
          LET r == UnrollEncoder(net, in)
          IN  call' = [op |-> "unroll_encoder",
                       kind |-> r.kind,
                       scale_params |-> IF r.kind = "ok" THEN r.scale_params
                                        ELSE EmptyDict,
                       teacher_forced |-> in.future_target_given,
                       oldest |-> in.past_target_cdf[1][1],
                       context_target |->
                           ContextSteps(in.past_target_cdf, net.context_length),
                       context_observed |->
                           ContextSteps(EffectiveObserved(in.past_observed_values,
                                                          in.past_is_pad),
                                        net.context_length)]
    /\ enc_prev' = call
    /\ net_calls' = net_calls + 1
    /\ UNCHANGED <<net, diffusion_scale>>
    /\ UNCHANGED <<lagVars, estVars>>

EncNext == CallUnrollEncoder

EncSpecInit == LagIdle /\ EstIdle /\ EncInit

SpecEnc == EncSpecInit /\ [][EncNext]_vars

\* two successive unroll_encoder calls that both returned
BothReturned ==
    /\ enc_prev.op = "unroll_encoder" /\ enc_prev.kind = "ok"
    /\ call.op = "unroll_encoder" /\ call.kind = "ok"

SameContext ==
    /\ call.context_target = enc_prev.context_target
    /\ call.context_observed = enc_prev.context_observed

\* C3: two unroll_encoder calls (encode-only or teacher-forced) that agree on
\* the last context_length steps of past_target_cdf and of the
\* effective-observed mask return identical scale parameters, whatever the
\* future data and the older past steps are.
C3_ScaleSeesContextOnly ==
    (BothReturned /\ SameContext) => call.scale_params = enc_prev.scale_params

\* an encode-only and a teacher-forced call with the same context window
\* and different older history
C3_Witness ==
    /\ BothReturned /\ SameContext
    /\ call.teacher_forced /\ ~enc_prev.teacher_forced
    /\ call.oldest # enc_prev.oldest
    /\ call.scale_params = enc_prev.scale_params

\* ------------------------------------------------------------------------
\* PersonnalizedTimeGrad.loss, forward and sampling_decoder
\* ------------------------------------------------------------------------
\* a repeat that tiles the batch (tensor.repeat) instead of interleaving it
RepeatInterleave_Tiled(x, n) == [i \in 1..(Len(x) * n) |-> x[((i - 1) % Len(x)) + 1]]

\* tensor.repeat_interleave(repeats=n, dim=0)
RepeatInterleave(x, n) == [i \in 1..(Len(x) * n) |-> x[((i - 1) \div n) + 1]]

\* repeat_dict: every field of the scale parameters, repeated
RepeatDict(d, n) == [key \in DOMAIN d |-> RepeatInterleave(d[key], n)]

\* repeat(s, dim=1) of a state tensor of shape (num_layers, batch, num_cells)
RepeatAlongBatch(x, n) == [l \in 1..Len(x) |-> RepeatInterleave(x[l], n)]

\* lines 622-625: the states of an LSTM are a list (hidden, cell), the state
\* of a GRU is one tensor
RepeatedStates(self, begin_states, n) ==
    IF self.cell_type = "LSTM"
    THEN [s \in 1..Len(begin_states) |-> RepeatAlongBatch(begin_states[s], n)]
    ELSE RepeatAlongBatch(begin_states, n)

\* the state self.rnn leaves after the encoder's unroll (line 298), one layer
\* of one cell: the values stand for "hidden / cell state of batch row b"
BeginStates(self, B) ==
    LET hidden == << [b \in 1..B |-> <<10 + b>>] >>
        cell == << [b \in 1..B |-> <<20 + b>>] >>
    IN  IF self.cell_type = "LSTM" THEN <<hidden, cell>> ELSE hidden

\* the state self.rnn returns after one decoding step (line 639): every
\* row's state moves on, rows stay rows
RnnStep(self, states) ==
    LET step(x) == [l \in 1..Len(x) |-> [r \in 1..Len(x[l]) |->
                       [u \in 1..Len(x[l][r]) |-> x[l][r][u] + 100]]]
    IN  IF self.cell_type = "LSTM"
        THEN [s \in 1..Len(states) |-> step(states[s])]
        ELSE step(states)

\* a loss that weighs a timestep as soon as one dimension is observed
LossWeights_AnyObserved(observed_values) ==
    [b \in 1..Len(observed_values) |-> [t \in 1..Len(observed_values[b]) |->
        << MaxOf(observed_values[b][t]) >>]]

\* line 555: observed_values.min(dim=-1, keepdim=True)
LossWeights(observed_values) ==
    [b \in 1..Len(observed_values) |-> [t \in 1..Len(observed_values[b]) |->
        << MinOf(observed_values[b][t]) >>]]

RECURSIVE Flatten(_)
\* the elements of a sequence of sequences, in row-major order
Flatten(x) == IF Len(x) = 0 THEN << >> ELSE x[1] \o Flatten(Tail(x))

\* torch.cat(future_samples, dim=1): each sample has shape (rows, 1, C)
CatSamples(future_samples, rows) ==
    [r \in 1..rows |-> Flatten([j \in 1..Len(future_samples) |-> future_samples[j][r]])]

\* samples.reshape((-1, N, P, C)): the elements in row-major order, regrouped
Reshape(samples, N, P, C) ==
    LET flat == Flatten(Flatten(samples))
        B == Len(flat) \div (N * P * C)
    IN  [b \in 1..B |-> [n \in 1..N |-> [t \in 1..P |-> [c \in 1..C |->
            flat[((((b - 1) * N + (n - 1)) * P + (t - 1)) * C) + c]]]]]

\* line 530 and 618: if self.scaling: self.diffusion.scale = ...
WriteScale(self, id, value) ==
    IF self.scaling THEN [set |-> TRUE, value |-> value, call |-> id]
    ELSE diffusion_scale

\* self.diffusion.log_prob(...) or .sample(...) runs with the attribute as it is
Invocation(fn, attribute) == [fn |-> fn, scale |-> attribute]

\* a decoder that stops one step early
DecodingDone_Early(self, k) == k >= self.prediction_length - 1

\* line 631: for k in range(self.prediction_length) is exhausted
DecodingDone(self, k) == k >= self.prediction_length

\* what diffusion.sample may return: shape (rows, 1, target_dim)
SampleVals == {7, 8}
Samples(rows, C) ==
    {[r \in 1..rows |-> << [c \in 1..C |-> v[r]] >>] : v \in [1..rows -> SampleVals]}

NetArgs ==
    [scaling : BOOLEAN, scaler_type : ScalerTypes,
     context_length : 1..MaxContext, prediction_length : 1..MaxPred,
     lags_seq : {<<1>>, <<2, 1>>},
     target_dim : {1}, num_parallel_samples : 1..MaxSamples, cell_type : {"LSTM"}]

\* the batches of one series given to loss and forward: two histories, fully
\* observed or with the first step padding
NetInputs(self) ==
    {[past_target_cdf |-> Series(x), past_observed_values |-> Series(m[1]),
      past_is_pad |-> <<m[2]>>,
      future_time_feat_given |-> TRUE, future_target_given |-> TRUE,
      future_target_cdf |-> Series([t \in 1..self.prediction_length |-> 2]),
      future_observed_values |-> Series([t \in 1..self.prediction_length |-> 1]),
      future_time_feat |-> Series([t \in 1..self.prediction_length |-> t]),
      target_dimension_indicator |-> << <<0>> >>] :
        x \in {[t \in 1..self.history_length |-> t],
               [t \in 1..self.history_length |-> -1]},
        m \in {<<[t \in 1..self.history_length |-> 1],
                 [t \in 1..self.history_length |-> IF t <= j THEN 1 ELSE 0]>> :
               j \in 0..1}}

NetInit ==
    /\ net = [status |-> "none"]
    /\ diffusion_scale = [set |-> FALSE]
    /\ net_calls = 0
    /\ call = [op |-> "none", pc |-> "none", error |-> "none"]
    /\ enc_prev = [op |-> "none"]

\* PersonnalizedTimeGrad(...)
NewNetwork ==
    /\ net.status = "none"
    /\ \E args \in NetArgs : net' = Construct(args)
    /\ UNCHANGED <<diffusion_scale, net_calls, call, enc_prev>>
    /\ UNCHANGED <<lagVars, estVars>>

\* no call is under way on the instance, and another one may start
MayCall ==
    /\ net.status = "ok"
    /\ call.pc # "decoding"
    /\ net_calls < MaxNetCalls

\* net.loss(...) on one of the given batches
Loss(inputs) ==
    /\ MayCall
    /\ \E in \in inputs :
          LET id == net_calls + 1
              r == UnrollEncoder(net, in)
              written == WriteScale(net, id, r.scale_params)
              past_observed_values == MaskPadded(in.past_observed_values,
                                                 in.past_is_pad)
              observed_values == CatTime(LastSteps(past_observed_values,
                                                   net.context_length),
                                         in.future_observed_values)
          IN  IF r.kind # "ok"
              THEN /\ call' = [op |-> "loss", id |-> id, pc |-> "raised",
                               error |-> r.kind]
                   /\ UNCHANGED diffusion_scale
              ELSE /\ diffusion_scale' = written
                   /\ call' = [op |-> "loss", id |-> id, pc |-> "returned",
                               error |-> "none",
                               inputs |-> in,
                               lags |-> r.lags,
                               lags_scaled |-> r.lags_scaled,
                               active_scale |-> r.scale_params,
                               uses |-> <<Invocation("log_prob", written)>>,
                               loss_weights |-> LossWeights(observed_values)]
    /\ net_calls' = net_calls + 1
    /\ UNCHANGED <<net, enc_prev>>
    /\ UNCHANGED <<lagVars, estVars>>

CallLoss == Loss(NetInputs(net))

\* net.forward(...) on one of the given batches, up to the loop of
\* sampling_decoder: encode the past, repeat every tensor
\* num_parallel_samples times, set the diffusion scale
Forward(inputs) ==
    /\ MayCall
    /\ \E in \in inputs :
          LET id == net_calls + 1
              N == net.num_parallel_samples
              past_observed_values == MaskPadded(in.past_observed_values,
                                                 in.past_is_pad)
              r == UnrollEncoder(net, [in EXCEPT !.past_observed_values =
                                                      past_observed_values,
                                                 !.future_time_feat_given = FALSE,
                                                 !.future_target_given = FALSE])
              begin_states == BeginStates(net, Len(in.past_target_cdf))
              repeated_scale == RepeatDict(r.scale_params, N)
          IN  IF r.kind # "ok"
              THEN /\ call' = [op |-> "forward", id |-> id, pc |-> "raised",
                               error |-> r.kind]
                   /\ UNCHANGED diffusion_scale
              ELSE /\ diffusion_scale' = WriteScale(net, id, repeated_scale)
                   /\ call' = [op |-> "forward", id |-> id, pc |-> "decoding",
                               error |-> "none",
                               inputs |-> in,
                               lags |-> r.lags,
                               lags_scaled |-> r.lags_scaled,
                               scale_params |-> r.scale_params,
                               begin_states |-> begin_states,
                               active_scale |-> repeated_scale,
                               uses |-> << >>,
                               batch |-> Len(in.past_target_cdf),
                               k |-> 0,
                               repeated_past_target_cdf |->
                                   RepeatInterleave(in.past_target_cdf, N),
                               repeated_time_feat |->
                                   RepeatInterleave(in.future_time_feat, N),
                               repeated_target_dimension_indicator |->
                                   RepeatInterleave(in.target_dimension_indicator, N),
                               repeated_states |->
                                   RepeatedStates(net, begin_states, N),
                               future_samples |-> << >>,
                               step_lags |-> << >>,
                               sequence_lengths |-> << >>,
                               history_lengths |-> << >>,
                               result |-> << >>]
    /\ net_calls' = net_calls + 1
    /\ UNCHANGED <<net, enc_prev>>
    /\ UNCHANGED <<lagVars, estVars>>

CallForward == Forward(NetInputs(net))

\* one pass of the loop of sampling_decoder (lines 631-658)
DecodeStep ==
    /\ call.pc = "decoding"
    /\ ~DecodingDone(net, call.k)
    /\ LET seqlen == net.history_length + call.k
           lags == GetLaggedSubsequences(call.repeated_past_target_cdf, seqlen,
                                         net.shifted_lags, 1)
       IN  IF lags.kind # "tensor"
           THEN call' = [op |-> "forward", id |-> call.id, pc |-> "raised",
                         error |-> lags.kind]
           ELSE IF Unroll(net) # "ok"
           THEN call' = [op |-> "forward", id |-> call.id, pc |-> "raised",
                         error |-> Unroll(net)]
           ELSE \E new_samples \in Samples(Len(call.repeated_past_target_cdf),
                                           net.target_dim) :
                   call' = [call EXCEPT
                       !.uses = Append(@, Invocation("sample", diffusion_scale)),
                       !.sequence_lengths = Append(@, seqlen),
                       !.history_lengths =
                           Append(@, Len(call.repeated_past_target_cdf[1])),
                       !.future_samples = Append(@, new_samples),
                       !.step_lags = Append(@, lags.value),
                       !.repeated_states = RnnStep(net, @),
                       !.repeated_past_target_cdf = CatTime(@, new_samples),
                       !.k = @ + 1]
    /\ UNCHANGED <<net, diffusion_scale, net_calls, enc_prev>>
    /\ UNCHANGED <<lagVars, estVars>>

\* the end of sampling_decoder (lines 660-671): concatenate and reshape
ForwardReturn ==
    /\ call.pc = "decoding"
    /\ DecodingDone(net, call.k)
    /\ call' = [call EXCEPT
           !.pc = "returned",
           !.result = Reshape(CatSamples(call.future_samples,
                                         Len(call.repeated_past_target_cdf)),
                              net.num_parallel_samples, net.prediction_length,
                              net.target_dim)]
    /\ UNCHANGED <<net, diffusion_scale, net_calls, enc_prev>>
    /\ UNCHANGED <<lagVars, estVars>>

NetNext ==
    \/ NewNetwork
    \/ CallLoss
    \/ CallForward
    \/ DecodeStep
    \/ ForwardReturn

NetSpecInit == LagIdle /\ EstIdle /\ NetInit

SpecNet == NetSpecInit /\ [][NetNext]_vars

\* ------------------------------------------------------------------------
\* Single forward calls on fresh networks
\* ------------------------------------------------------------------------
DecArgs ==
    [scaling : BOOLEAN, scaler_type : {"mean", "mean_std"},
     context_length : 1..MaxContext, prediction_length : 1..MaxPred,
     lags_seq : {<<1>>, <<2, 1>>},
     target_dim : {1}, num_parallel_samples : 1..MaxSamples, cell_type : {"LSTM"}]

DecInit ==
    /\ net \in {Construct(a) : a \in DecArgs}
    /\ diffusion_scale = [set |-> FALSE]
    /\ net_calls = 0
    /\ call = [op |-> "none", pc |-> "none", error |-> "none"]
    /\ enc_prev = [op |-> "none"]

\* forward is the first call made on the instance
FirstForward == net_calls = 0 /\ CallForward

DecNext ==
    \/ FirstForward
    \/ DecodeStep
    \/ ForwardReturn

DecSpecInit == LagIdle /\ EstIdle /\ DecInit

SpecDec == DecSpecInit /\ [][DecNext]_vars

\* ------------------------------------------------------------------------
\* Single loss calls on batches whose masks differ between dimensions
\* ------------------------------------------------------------------------
LossArgs ==
    [scaling : BOOLEAN, scaler_type : {"mean"},
     context_length : 1..MaxContext, prediction_length : 1..MaxPred,
     lags_seq : {<<1>>},
     target_dim : {2}, num_parallel_samples : {1}, cell_type : {"LSTM"}]

\* observed-value indicators of shape (T, C): everything observed, one
\* dimension of one step missing, or one whole step missing
ObservedPatterns(T, C) ==
    {[t \in 1..T |-> [c \in 1..C |->
         IF t = mt /\ (mc = 0 \/ c = mc) THEN 0 ELSE 1]] :
        mt \in 0..T, mc \in 0..C}

\* padding indicators of shape (T): the first j steps are padding
PadPatterns(T) == {[t \in 1..T |-> IF t <= j THEN 1 ELSE 0] : j \in 0..T}

\* batches of one series of target_dim dimensions
MaskedInputs(self) ==
    {[past_target_cdf |->
          << [t \in 1..self.history_length |-> [c \in 1..self.target_dim |-> t]] >>,
      past_observed_values |-> <<o>>,
      past_is_pad |-> <<p>>,
      future_time_feat_given |-> TRUE, future_target_given |-> TRUE,
      future_target_cdf |->
          << [t \in 1..self.prediction_length |-> [c \in 1..self.target_dim |-> 2]] >>,
      future_observed_values |-> <<f>>,
      future_time_feat |-> Series([t \in 1..self.prediction_length |-> t]),
      target_dimension_indicator |-> << [c \in 1..self.target_dim |-> c - 1] >>] :
        o \in ObservedPatterns(self.history_length, self.target_dim),
        p \in PadPatterns(self.history_length),
        f \in ObservedPatterns(self.prediction_length, self.target_dim)}

LossInit ==
    /\ net \in {Construct(a) : a \in LossArgs}
    /\ diffusion_scale = [set |-> FALSE]
    /\ net_calls = 0
    /\ call = [op |-> "none", pc |-> "none", error |-> "none"]
    /\ enc_prev = [op |-> "none"]

\* loss is the first call made on the instance
FirstLoss == net_calls = 0 /\ Loss(MaskedInputs(net))

LossNext == FirstLoss

LossSpecInit == LagIdle /\ EstIdle /\ LossInit

SpecLoss == LossSpecInit /\ [][LossNext]_vars

\* ------------------------------------------------------------------------
\* Single forward calls on batches of two series
\* ------------------------------------------------------------------------
SampArgs ==
    [scaling : {TRUE}, scaler_type : {"mean", "mean_std"},
     context_length : {1}, prediction_length : {2},
     lags_seq : {<<1>>},
     target_dim : {1}, num_parallel_samples : 1..MaxSamples,
     cell_type : {"LSTM", "GRU"}]

\* batches of two series that differ in every tensor, one feature and one
\* target dimension; v shifts the values of the second series
BatchInputs(self) ==
    {[past_target_cdf |->
          [b \in 1..2 |-> [t \in 1..self.history_length |-> <<(b - 1) * v + t>>]],
      past_observed_values |->
          [b \in 1..2 |-> [t \in 1..self.history_length |-> <<1>>]],
      past_is_pad |-> [b \in 1..2 |-> [t \in 1..self.history_length |-> 0]],
      future_time_feat_given |-> TRUE, future_target_given |-> TRUE,
      future_target_cdf |->
          [b \in 1..2 |-> [t \in 1..self.prediction_length |-> <<2>>]],
      future_observed_values |->
          [b \in 1..2 |-> [t \in 1..self.prediction_length |-> <<1>>]],
      future_time_feat |->
          [b \in 1..2 |-> [t \in 1..self.prediction_length |-> <<100 * b + t>>]],
      target_dimension_indicator |-> [b \in 1..2 |-> <<b - 1>>]] :
        v \in {3, 5}}

SampInit ==
    /\ net \in {Construct(a) : a \in SampArgs}
    /\ diffusion_scale = [set |-> FALSE]
    /\ net_calls = 0
    /\ call = [op |-> "none", pc |-> "none", error |-> "none"]
    /\ enc_prev = [op |-> "none"]

\* forward is the first call made on the instance
ForwardOnBatch == net_calls = 0 /\ Forward(BatchInputs(net))

SampNext ==
    \/ ForwardOnBatch
    \/ DecodeStep
    \/ ForwardReturn

SampSpecInit == LagIdle /\ EstIdle /\ SampInit

SpecSamp == SampSpecInit /\ [][SampNext]_vars

\* ------------------------------------------------------------------------
\* Construction from any lag list
\* ------------------------------------------------------------------------
\* the lag lists a caller may give: any order, repetitions allowed
ConArgs ==
    [scaling : BOOLEAN, scaler_type : ScalerTypes,
     context_length : 1..MaxContext, prediction_length : {1},
     lags_seq : SeqsUpTo(0..MaxLag, MaxLags),
     target_dim : {1}, num_parallel_samples : {1}, cell_type : {"LSTM"}]

\* PersonnalizedTimeGrad(..., lags_seq=lags_seq, ...)
ConstructFromLags ==
    /\ net.status = "none"
    /\ \E args \in ConArgs : net' = Construct(args)
    /\ UNCHANGED <<diffusion_scale, net_calls, call, enc_prev>>
    /\ UNCHANGED <<lagVars, estVars>>

ConNext == ConstructFromLags

ConSpecInit == LagIdle /\ EstIdle /\ NetInit

SpecCon == ConSpecInit /\ [][ConNext]_vars

\* ------------------------------------------------------------------------
\* Properties of the network
\* ------------------------------------------------------------------------
\* a loss or forward call that got as far as the diffusion head
ReachedDiffusion ==
    call.op \in {"loss", "forward"} /\ call.pc \in {"decoding", "returned"}

\* C4: in every loss and forward call, for every configuration (scaling
\* disabled included), each diffusion.log_prob and diffusion.sample
\* invocation finds the scale attribute written in that very call, with the
\* call's scale parameters: never unset, never left from an earlier call.
C4_ScaleWrittenBeforeUse ==
    ReachedDiffusion =>
        \A i \in 1..Len(call.uses) :
            /\ call.uses[i].scale.set
            /\ call.uses[i].scale.call = call.id
            /\ call.uses[i].scale.value = call.active_scale

RecognizedScalerTypes == {"mean", "nops", "centered_mean", "mean_std"}

\* C10: a scaler_type outside the recognized set makes the constructor fail
\* whatever the scaling flag is, and a network whose construction succeeded
\* never raises "Invalid scaler type" in unroll_encoder or unroll.
C10_ScalerTypeSettledAtConstruction ==
    /\ (net.status # "none" /\ net.scaler_type \notin RecognizedScalerTypes)
          => net.status = InvalidScalerType
    /\ net.status = "ok" => call.error # InvalidScalerType

\* a forward call that reached the decoding loop
Decoding == call.op = "forward" /\ call.pc \in {"decoding", "returned"}

C14_LagsAfterConstruction ==
    net.status = "ok" =>
        /\ \A i, j \in 1..Len(net.lags_seq) :
              i < j => net.lags_seq[i] < net.lags_seq[j]
        /\ Len(net.shifted_lags) = Len(net.lags_seq)
        /\ \A i \in 1..Len(net.lags_seq) :
              net.shifted_lags[i] = net.lags_seq[i] - 1
        /\ net.history_length = net.context_length + MaxOf(net.lags_seq)

\* the running history, filled with zeros up to n steps
PaddedHistory(x, n) ==
    [b \in 1..Len(x) |->
        x[b] \o [t \in 1..(n - Len(x[b])) |-> [c \in 1..Len(x[b][1]) |-> 0]]]

\* C19: decoding and teacher forcing build the same lag features: at every
\* decoding step k and lag position i, the raw lag value sampling_decoder
\* extracts with shifted_lags from the running history equals the one
\* teacher-forced unroll_encoder places at window position context_length + k,
\* lag position i, when the future targets are the samples drawn so far; both
\* are the combined series at time index history_length + k - lags_seq[i].
C19_DecodingMatchesTeacherForcing ==
    Decoding =>
        LET H == net.history_length
            C == net.context_length
            P == net.prediction_length
            combined == PaddedHistory(call.repeated_past_target_cdf, H + P)
            teacher == GetLaggedSubsequences(combined, H + P, net.lags_seq, C + P)
        IN  /\ teacher.kind = "tensor"
            /\ Len(call.step_lags) = call.k
            /\ \A j \in 1..call.k :
                  \A r \in 1..Len(combined) :
                      \A c \in 1..net.target_dim :
                          \A i \in 1..Len(net.lags_seq) :
                              /\ call.step_lags[j][r][1][c][i]
                                    = teacher.value[r][C + j][c][i]
                              /\ call.step_lags[j][r][1][c][i]
                                    = combined[r][H + (j - 1) - net.lags_seq[i] + 1][c]

\* the raw lag values as fractions
AsFractions(lags) ==
    [b \in 1..Len(lags) |-> [t \in 1..Len(lags[b]) |->
        [c \in 1..Len(lags[b][t]) |-> [i \in 1..Len(lags[b][t][c]) |->
            <<lags[b][t][c][i], 1>>]]]]

\* C15: when the no-op scaler is active (scaling disabled, or scaler_type
\* 'nops' with scaling enabled), unroll_encoder, as called by loss and
\* forward, completes without error and the normalized lags it returns
\* equal the raw lag values.
C15_NoOpScalerIsIdentity ==
    (net.status = "ok" /\ net.scaler = "NOPScaler"
        /\ call.op \in {"loss", "forward"}) =>
        /\ call.error = "none"
        /\ call.lags_scaled = AsFractions(call.lags)

\* C13: in loss, the weight of timestep t of the context+prediction window
\* is 1 exactly when every target dimension is effectively observed at t
\* (observed and not padded for the last context_length past steps,
\* future_observed_values as given for the prediction steps), and 0 as soon
\* as one dimension is missing at t.
C13_LossWeights ==
    (call.op = "loss" /\ call.pc = "returned") =>
        LET in == call.inputs
            H == net.history_length
            C == net.context_length
            P == net.prediction_length
            Effective(b, t, c) ==
                IF t <= C
                THEN /\ in.past_observed_values[b][H - C + t][c] = 1
                     /\ in.past_is_pad[b][H - C + t] = 0
                ELSE in.future_observed_values[b][t - C][c] = 1
        IN  /\ Len(call.loss_weights) = Len(in.past_target_cdf)
            /\ \A b \in 1..Len(call.loss_weights) :
                  /\ Len(call.loss_weights[b]) = C + P
                  /\ \A t \in 1..(C + P) :
                        call.loss_weights[b][t] =
                            << IF \A c \in 1..net.target_dim : Effective(b, t, c)
                               THEN 1 ELSE 0 >>

\* a loss call in which one dimension of a prediction step is missing while
\* the other is observed, and the first context step is padding
C13_Witness ==
    /\ call.op = "loss" /\ call.pc = "returned"
    /\ net.context_length = 2 /\ net.prediction_length = 2
    /\ call.inputs.future_observed_values[1][1] = <<1, 0>>
    /\ call.inputs.past_is_pad[1] = <<1, 1, 0>>
    /\ call.loss_weights[1] = << <<0>>, <<1>>, <<0>>, <<1>> >>

====
